---- MODULE Spec2Model ----
(***************************************************************************)
(* BugTracker API (src/main.py): six request handlers over two PostgreSQL  *)
(* tables, bugs and bug_comments.  Every handler is a sequence of steps:   *)
(* check a connection out of the engine's pool (engine.connect() or        *)
(* engine.begin()), execute one SQL statement, leave the with-block        *)
(* (commit or close, and return the connection), answer.  Requests of      *)
(* different workers interleave between those steps.                       *)
(*                                                                         *)
(* NOW() in PostgreSQL is the start time of the current transaction.  The  *)
(* transaction of a write handler is begun by a command of its own, ahead  *)
(* of the handler's statement, so the handler reads the clock in one step  *)
(* (Begin) and writes what it read in a later one (Exec); the statement    *)
(* and the commit that follows it are one step, since a row written by the *)
(* statement stays locked and unseen until the commit.                     *)
(*                                                                         *)
(* resp observes the answer a step produces: it is set by the step that    *)
(* ends a request and cleared by Respond before anything else happens.     *)
(***************************************************************************)
EXTENDS Integers, Sequences, FiniteSets, TLC

\* ---------------------------------------------------------------- bounds
MaxReqs == 3
MaxClock == 1

\* ---------------------------------------------------------------- inputs
Procs == {"w1", "w2"}

None == "None"
Titles == {"t1", "t2"}
Descriptions == {"d1", "d2"}
Priorities == {"low", "medium", "high", "critical"}
Statuses == {"open", "in_progress", "closed"}
Authors == {"ann"}
Texts == {"c1"}

\* class BugCreate: every field present, status defaults to "open"
BugCreate ==
  { [title |-> "t1", description |-> "d1", priority |-> "low", status |-> s] :
      s \in {"open", "closed"} }

\* class BugUpdate: every field Optional, None when not supplied
BugUpdate ==
  { [title |-> None, description |-> None, priority |-> None, status |-> None],
    [title |-> "t2", description |-> None, priority |-> "high", status |-> None],
    [title |-> None, description |-> None, priority |-> None, status |-> "closed"],
    [title |-> "t2", description |-> None, priority |-> None, status |-> "in_progress"] }

\* class CommentCreate
CommentCreate == [author : Authors, comment : Texts]

UpdatableFields == {"title", "description", "priority", "status"}

\* payload.model_dump(exclude_none=True): the dict of the supplied fields
ModelDumpExcludeNone(payload) ==
  [k \in {f \in UpdatableFields : payload[f] # None} |-> payload[k]]

\* ---------------------------------------------------------------- state
VARIABLES
  bugs,        \* table bugs: bug_id -> row
  bug_seq,     \* last bug_id handed out
  comments,    \* table bug_comments: comment_id -> row
  comment_seq, \* last comment_id handed out
  now,         \* the database clock
  pc,          \* pc[p]: where worker p is in its handler
  req,         \* req[p]: bug_id and payload of the request p serves
  txn_start,   \* txn_start[p]: NOW() of p's open transaction
  held,        \* held[p]: connections p has checked out of the pool
  served,      \* requests accepted so far
  resp         \* the response sent by the last step, NoResp if none

vars == <<bugs, bug_seq, comments, comment_seq, now, pc, req, txn_start, held, served, resp>>

NoPayload == << >>
NoReq == [bug_id |-> 0, payload |-> NoPayload]
NoResp == [op |-> "none"]

\* CASE WHEN :status = 'closed' THEN NOW() ELSE NULL END; NULL is {}
ResolvedAt(status, t) == IF status = "closed" THEN {t} ELSE {}

Response(p, op, status, body, scope) ==
  [op |-> op, bug_id |-> req[p].bug_id, status |-> status,
   body |-> body, scope |-> scope]

\* The database outlives the service: it starts empty, or holding the bug an
\* earlier run of create_bug filed at time 0.
InitialBugs ==
  {<< >>} \cup
  {1 :> [bug_id |-> 1, title |-> "t1", description |-> "d1", priority |-> "low",
         status |-> "open", created_at |-> 0, updated_at |-> 0, resolved_at |-> {}]}

Init ==
  /\ bugs \in InitialBugs
  /\ bug_seq = Cardinality(DOMAIN bugs)
  /\ comments = << >>
  /\ comment_seq = 0
  /\ now = 0
  /\ pc = [p \in Procs |-> "idle"]
  /\ req = [p \in Procs |-> NoReq]
  /\ txn_start = [p \in Procs |-> 0]
  /\ held = [p \in Procs |-> 0]
  /\ served = 0
  /\ resp = NoResp

\* the database clock advances
Tick ==
  /\ resp = NoResp
  /\ now < MaxClock
  /\ now' = now + 1
  /\ resp' = resp
  /\ UNCHANGED <<bugs, bug_seq, comments, comment_seq, pc, req, txn_start, held, served>>

\* a request reaches an idle worker
Accept(p) ==
  /\ resp = NoResp
  /\ pc[p] = "idle"
  /\ served < MaxReqs
  /\ served' = served + 1

\* with engine.connect() as conn:
Connect(p, label, r) ==
  /\ pc' = [pc EXCEPT ![p] = label]
  /\ req' = [req EXCEPT ![p] = r]
  /\ held' = [held EXCEPT ![p] = @ + 1]
  /\ resp' = NoResp
  /\ UNCHANGED <<bugs, bug_seq, comments, comment_seq, now, txn_start>>

\* with engine.begin() as conn: a connection with a transaction begun now
Begin(p, label, r) ==
  /\ pc' = [pc EXCEPT ![p] = label]
  /\ req' = [req EXCEPT ![p] = r]
  /\ held' = [held EXCEPT ![p] = @ + 1]
  /\ txn_start' = [txn_start EXCEPT ![p] = now]
  /\ resp' = NoResp
  /\ UNCHANGED <<bugs, bug_seq, comments, comment_seq, now>>

\* leaving the with-block returns the connection; the handler answers
Finish(p, r) ==
  /\ resp = NoResp
  /\ pc' = [pc EXCEPT ![p] = "idle"]
  /\ req' = [req EXCEPT ![p] = NoReq]
  /\ held' = [held EXCEPT ![p] = @ - 1]
  /\ txn_start' = [txn_start EXCEPT ![p] = 0]
  /\ resp' = r
  /\ UNCHANGED served

\* the ids a request may address
BugIds == {1, 2}

\* ---------------------------------------------------------------- list_bugs
\* mutant: ORDER BY bug_id ASC
RECURSIVE OrderByBugIdAsc(_)
OrderByBugIdAsc(ids) ==
  IF ids = {} THEN << >>
  ELSE LET m == CHOOSE i \in ids : \A j \in ids : i <= j
       IN <<bugs[m]>> \o OrderByBugIdAsc(ids \ {m})

RECURSIVE OrderByBugIdDesc(_)
OrderByBugIdDesc(ids) ==
  IF ids = {} THEN << >>
  ELSE LET m == CHOOSE i \in ids : \A j \in ids : j <= i
       IN <<bugs[m]>> \o OrderByBugIdDesc(ids \ {m})

ListBugsConnect(p) ==
  /\ Accept(p)
  /\ Connect(p, "list_bugs", NoReq)

ListBugsExec(p) ==
  /\ pc[p] = "list_bugs"
  /\ Finish(p, Response(p, "list_bugs", 200, OrderByBugIdDesc(DOMAIN bugs), "close"))
  /\ UNCHANGED <<bugs, bug_seq, comments, comment_seq, now>>

\* ---------------------------------------------------------------- create_bug
CreateBugBegin(p, payload) ==
  /\ Accept(p)
  /\ Begin(p, "create_bug", [bug_id |-> 0, payload |-> payload])

InsertedBug(id, payload, t) ==
  [bug_id |-> id, title |-> payload.title, description |-> payload.description,
   priority |-> payload.priority, status |-> payload.status,
   created_at |-> t, updated_at |-> t, resolved_at |-> ResolvedAt(payload.status, t)]

\* bug_id is not among the INSERT's columns: it comes from the table's sequence
CreateBugExec(p) ==
  /\ pc[p] = "create_bug"
  /\ LET id == bug_seq + 1
         row == InsertedBug(id, req[p].payload, txn_start[p])
     IN /\ bugs' = (id :> row) @@ bugs
        /\ bug_seq' = id
        /\ Finish(p, Response(p, "create_bug", 201, row, "commit"))
  /\ UNCHANGED <<comments, comment_seq, now>>

\* ---------------------------------------------------------------- get_bug
GetBugConnect(p, bug_id) ==
  /\ Accept(p)
  /\ Connect(p, "get_bug", [bug_id |-> bug_id, payload |-> NoPayload])

\* mutant: the missing row is not detected
GetBugExecNo404(p) ==
  /\ pc[p] = "get_bug"
  /\ LET bug_id == req[p].bug_id
     IN Finish(p, Response(p, "get_bug", 200,
                           IF bug_id \in DOMAIN bugs THEN bugs[bug_id] ELSE NoPayload,
                           "close"))
  /\ UNCHANGED <<bugs, bug_seq, comments, comment_seq, now>>

GetBugExec(p) ==
  /\ pc[p] = "get_bug"
  /\ LET bug_id == req[p].bug_id
     IN IF bug_id \in DOMAIN bugs
        THEN Finish(p, Response(p, "get_bug", 200, bugs[bug_id], "close"))
        ELSE Finish(p, Response(p, "get_bug", 404, "Bug not found", "close"))
  /\ UNCHANGED <<bugs, bug_seq, comments, comment_seq, now>>

\* ---------------------------------------------------------------- update_bug
\* mutant: the UPDATE, reduced to updated_at = NOW(), runs before the 400
UpdateBugNoFieldsTouch(p, bug_id, payload) ==
  /\ Accept(p)
  /\ DOMAIN ModelDumpExcludeNone(payload) = {}
  /\ resp' = [op |-> "update_bug", bug_id |-> bug_id, status |-> 400,
              body |-> "No fields provided for update", scope |-> "none"]
  /\ bugs' = IF bug_id \in DOMAIN bugs
             THEN [bugs EXCEPT ![bug_id].updated_at = now] ELSE bugs
  /\ UNCHANGED <<bug_seq, comments, comment_seq, now, pc, req, txn_start, held>>

\* if not fields: raise HTTPException(400), before any connection is taken
UpdateBugNoFields(p, bug_id, payload) ==
  /\ Accept(p)
  /\ DOMAIN ModelDumpExcludeNone(payload) = {}
  /\ resp' = [op |-> "update_bug", bug_id |-> bug_id, status |-> 400,
              body |-> "No fields provided for update", scope |-> "none"]
  /\ UNCHANGED <<bugs, bug_seq, comments, comment_seq, now, pc, req, txn_start, held>>

UpdateBugBegin(p, bug_id, payload) ==
  /\ Accept(p)
  /\ DOMAIN ModelDumpExcludeNone(payload) # {}
  /\ Begin(p, "update_bug", [bug_id |-> bug_id, payload |-> payload])

\* mutant: resolved_at is left alone when status is supplied
UpdatedBugKeepResolved(row, values, t) ==
  [f \in DOMAIN row |->
     CASE f \in DOMAIN values -> values[f]
       [] f = "updated_at" -> t
       [] OTHER -> row[f]]

\* mutant: resolved_at is recomputed on every update
UpdatedBugAlwaysResolved(row, values, t) ==
  [f \in DOMAIN row |->
     CASE f \in DOMAIN values -> values[f]
       [] f = "resolved_at" ->
            ResolvedAt(IF "status" \in DOMAIN values THEN values["status"] ELSE row.status, t)
       [] f = "updated_at" -> t
       [] OTHER -> row[f]]

\* mutant: updated_at is not bumped
UpdatedBugNoBump(row, values, t) ==
  [f \in DOMAIN row |->
     CASE f \in DOMAIN values -> values[f]
       [] f = "resolved_at" /\ "status" \in DOMAIN values -> ResolvedAt(values["status"], t)
       [] OTHER -> row[f]]

\* UPDATE bugs SET <supplied fields>, [resolved_at = CASE ...,] updated_at = NOW()
UpdatedBug(row, values, t) ==
  [f \in DOMAIN row |->
     CASE f \in DOMAIN values -> values[f]
       [] f = "resolved_at" /\ "status" \in DOMAIN values -> ResolvedAt(values["status"], t)
       [] f = "updated_at" -> t
       [] OTHER -> row[f]]

UpdateBugExec(p) ==
  /\ pc[p] = "update_bug"
  /\ LET bug_id == req[p].bug_id
         values == ModelDumpExcludeNone(req[p].payload)
     IN IF bug_id \in DOMAIN bugs
        THEN LET row == UpdatedBug(bugs[bug_id], values, txn_start[p])
             IN /\ bugs' = [bugs EXCEPT ![bug_id] = row]
                /\ Finish(p, Response(p, "update_bug", 200, row, "commit"))
        ELSE /\ bugs' = bugs
             /\ Finish(p, Response(p, "update_bug", 404, "Bug not found", "commit"))
  /\ UNCHANGED <<bug_seq, comments, comment_seq, now>>

\* ---------------------------------------------------------------- add_comment
AddCommentConnect(p, bug_id, payload) ==
  /\ Accept(p)
  /\ Connect(p, "add_comment_check", [bug_id |-> bug_id, payload |-> payload])

\* mutant: the result of the existence check is not looked at
AddCommentCheckIgnored(p) ==
  /\ resp = NoResp
  /\ pc[p] = "add_comment_check"
  /\ pc' = [pc EXCEPT ![p] = "add_comment_found"]
  /\ held' = [held EXCEPT ![p] = @ - 1]
  /\ resp' = NoResp
  /\ UNCHANGED <<req, txn_start, served>>
  /\ UNCHANGED <<bugs, bug_seq, comments, comment_seq, now>>

\* SELECT 1 FROM bugs WHERE bug_id = :bug_id, on a connection of its own
AddCommentCheck(p) ==
  /\ resp = NoResp
  /\ pc[p] = "add_comment_check"
  /\ IF req[p].bug_id \in DOMAIN bugs
     THEN /\ pc' = [pc EXCEPT ![p] = "add_comment_found"]
          /\ held' = [held EXCEPT ![p] = @ - 1]
          /\ resp' = NoResp
          /\ UNCHANGED <<req, txn_start, served>>
     ELSE Finish(p, Response(p, "add_comment", 404, "Bug not found", "close"))
  /\ UNCHANGED <<bugs, bug_seq, comments, comment_seq, now>>

AddCommentBegin(p) ==
  /\ resp = NoResp
  /\ pc[p] = "add_comment_found"
  /\ Begin(p, "add_comment_insert", req[p])
  /\ UNCHANGED served

\* created_at is not among the INSERT's columns: the column takes its default,
\* the current timestamp, which is NOW() of the inserting transaction
CreatedAtDefault(t) == t

InsertedComment(id, bug_id, payload, t) ==
  [comment_id |-> id, bug_id |-> bug_id, author |-> payload.author,
   comment |-> payload.comment, created_at |-> CreatedAtDefault(t)]

\* mutant: the insert replaces the newest comment
AddCommentInsertReplace(p) ==
  /\ pc[p] = "add_comment_insert"
  /\ LET id == IF comment_seq = 0 THEN 1 ELSE comment_seq
         row == InsertedComment(id, req[p].bug_id, req[p].payload, txn_start[p])
     IN /\ comments' = (id :> row) @@ comments
        /\ comment_seq' = id
        /\ Finish(p, Response(p, "add_comment", 201, row, "commit"))
  /\ UNCHANGED <<bugs, bug_seq, now>>

AddCommentInsert(p) ==
  /\ pc[p] = "add_comment_insert"
  /\ LET id == comment_seq + 1
         row == InsertedComment(id, req[p].bug_id, req[p].payload, txn_start[p])
     IN /\ comments' = (id :> row) @@ comments
        /\ comment_seq' = id
        /\ Finish(p, Response(p, "add_comment", 201, row, "commit"))
  /\ UNCHANGED <<bugs, bug_seq, now>>

\* ---------------------------------------------------------------- list_comments
Range(f) == {f[i] : i \in DOMAIN f}

\* WHERE bug_id = :bug_id
CommentsOf(bug_id) == {c \in Range(comments) : c.bug_id = bug_id}

\* mutant: ORDER BY created_at DESC
OrderByCreatedAtDesc(rows) ==
  {s \in [1..Cardinality(rows) -> rows] :
     /\ \A i, j \in DOMAIN s : i # j => s[i] # s[j]
     /\ \A i, j \in DOMAIN s : i < j => s[i].created_at >= s[j].created_at}

\* ORDER BY created_at ASC: rows of equal created_at come in any order
OrderByCreatedAtAsc(rows) ==
  {s \in [1..Cardinality(rows) -> rows] :
     /\ \A i, j \in DOMAIN s : i # j => s[i] # s[j]
     /\ \A i, j \in DOMAIN s : i < j => s[i].created_at <= s[j].created_at}

ListCommentsConnect(p, bug_id) ==
  /\ Accept(p)
  /\ Connect(p, "list_comments", [bug_id |-> bug_id, payload |-> NoPayload])

ListCommentsExec(p) ==
  /\ pc[p] = "list_comments"
  /\ \E rows \in OrderByCreatedAtAsc(CommentsOf(req[p].bug_id)) :
       Finish(p, Response(p, "list_comments", 200, rows, "close"))
  /\ UNCHANGED <<bugs, bug_seq, comments, comment_seq, now>>

\* ---------------------------------------------------------------- errors
InTransaction(p) == pc[p] \in {"create_bug", "update_bug", "add_comment_insert"}

\* mutant: the exception leaves the handler with the connection checked out
DbErrorLeak(p) ==
  /\ held[p] > 0
  /\ resp = NoResp
  /\ pc' = [pc EXCEPT ![p] = "idle"]
  /\ req' = [req EXCEPT ![p] = NoReq]
  /\ resp' = Response(p, pc[p], 500, "Internal Server Error",
                      IF pc[p] \in {"create_bug", "update_bug", "add_comment_insert"}
                      THEN "rollback" ELSE "close")
  /\ UNCHANGED <<bugs, bug_seq, comments, comment_seq, now, txn_start, held, served>>

\* the statement raises: the with-block rolls back or closes, and the
\* connection goes back to the pool before the exception leaves the handler
DbError(p) ==
  /\ held[p] > 0
  /\ Finish(p, Response(p, pc[p], 500, "Internal Server Error",
                        IF InTransaction(p) THEN "rollback" ELSE "close"))
  /\ UNCHANGED <<bugs, bug_seq, comments, comment_seq, now>>

\* the answer leaves the server; resp observes one step only
Respond ==
  /\ resp # NoResp
  /\ resp' = NoResp
  /\ UNCHANGED <<bugs, bug_seq, comments, comment_seq, now, pc, req, txn_start, held, served>>

Next ==
  \/ Tick
  \/ Respond
  \/ \E p \in Procs : ListBugsConnect(p)
  \/ \E p \in Procs : ListBugsExec(p)
  \/ \E p \in Procs, payload \in BugCreate : CreateBugBegin(p, payload)
  \/ \E p \in Procs : CreateBugExec(p)
  \/ \E p \in Procs, bug_id \in BugIds : GetBugConnect(p, bug_id)
  \/ \E p \in Procs : GetBugExec(p)
  \/ \E p \in Procs, bug_id \in BugIds, payload \in BugUpdate :
       UpdateBugNoFields(p, bug_id, payload)
  \/ \E p \in Procs, bug_id \in BugIds, payload \in BugUpdate :
       UpdateBugBegin(p, bug_id, payload)
  \/ \E p \in Procs : UpdateBugExec(p)
  \/ \E p \in Procs, bug_id \in BugIds, payload \in CommentCreate :
       AddCommentConnect(p, bug_id, payload)
  \/ \E p \in Procs : AddCommentCheck(p)
  \/ \E p \in Procs : AddCommentBegin(p)
  \/ \E p \in Procs : AddCommentInsert(p)
  \/ \E p \in Procs, bug_id \in BugIds : ListCommentsConnect(p, bug_id)
  \/ \E p \in Procs : ListCommentsExec(p)
  \/ \E p \in Procs : DbError(p)

Spec == Init /\ [][Next]_vars

\* ================================================================ properties
Labels ==
  {"idle", "list_bugs", "create_bug", "get_bug", "update_bug", "add_comment_check",
   "add_comment_found", "add_comment_insert", "list_comments"}

BugRows ==
  [bug_id : 1..MaxReqs + 1, title : Titles, description : Descriptions,
   priority : Priorities, status : Statuses, created_at : 0..MaxClock,
   updated_at : 0..MaxClock, resolved_at : {{}} \cup {{t} : t \in 0..MaxClock}]

CommentRows ==
  [comment_id : 1..MaxReqs, bug_id : BugIds, author : Authors, comment : Texts,
   created_at : 0..MaxClock]

TypeOK ==
  /\ DOMAIN bugs = 1..bug_seq
  /\ \A b \in DOMAIN bugs : bugs[b] \in BugRows /\ bugs[b].bug_id = b
  /\ DOMAIN comments = 1..comment_seq
  /\ \A c \in DOMAIN comments : comments[c] \in CommentRows /\ comments[c].comment_id = c
  /\ now \in 0..MaxClock
  /\ served \in 0..MaxReqs
  /\ pc \in [Procs -> Labels]
  /\ \A p \in Procs : txn_start[p] <= now /\ held[p] \in 0..1

IsNull(x) == x = {}

\* worker p ends its request in this step
Completes(p, label) == pc[p] = label /\ pc'[p] = "idle"

Answered(op, status) == resp # NoResp /\ resp.op = op /\ resp.status = status

\* ---------------------------------------------------------------- C1
\* C1: in every reachable state, under any interleaving of requests, every
\* stored bug has resolved_at non-null if and only if its status is 'closed'.
C1_ResolvedIffClosed ==
  \A b \in DOMAIN bugs : ~IsNull(bugs[b].resolved_at) <=> bugs[b].status = "closed"

\* a bug closed by create_bug has been taken out of 'closed' by update_bug
\* while another bug stands closed by update_bug
C1_Witness ==
  /\ Answered("update_bug", 200)
  /\ \E b \in DOMAIN bugs :
       /\ bugs[b].status = "in_progress" /\ IsNull(bugs[b].resolved_at)
       /\ bugs[b].created_at # bugs[b].updated_at
  /\ \E b \in DOMAIN bugs : bugs[b].status = "closed" /\ ~IsNull(bugs[b].resolved_at)

\* ---------------------------------------------------------------- C2
\* C2: a successful update_bug sets exactly the supplied (non-null) fields among
\* title/description/priority/status and keeps the others; it sets updated_at
\* to NOW(); it changes resolved_at only when status is supplied; it never
\* changes bug_id or created_at; every other bug and every comment is untouched.
C2_UpdateFrame ==
  [][\A p \in Procs :
       (Completes(p, "update_bug") /\ resp'.status = 200) =>
         LET id == req[p].bug_id
             payload == req[p].payload
             old == bugs[id]
             new == bugs'[id]
         IN /\ \A f \in UpdatableFields :
                 new[f] = IF payload[f] # None THEN payload[f] ELSE old[f]
            /\ new.updated_at = txn_start[p]
            /\ payload.status = None => new.resolved_at = old.resolved_at
            /\ new.bug_id = old.bug_id
            /\ new.created_at = old.created_at
            /\ DOMAIN bugs' = DOMAIN bugs
            /\ \A b \in DOMAIN bugs \ {id} : bugs'[b] = bugs[b]
            /\ comments' = comments]_vars

\* title and priority were updated on a closed bug, at a later time, with a
\* comment stored: status, description and resolved_at stay
C2_Witness ==
  /\ Answered("update_bug", 200)
  /\ comments # << >>
  /\ resp.body.title = "t2" /\ resp.body.priority = "high"
  /\ resp.body.description = "d1" /\ resp.body.status = "closed"
  /\ resp.body.updated_at # resp.body.created_at
  /\ resp.body.resolved_at = {resp.body.created_at}

\* ---------------------------------------------------------------- C3
\* C3: update_bug with no field supplied answers 400 whether or not the bug
\* exists and changes nothing: no UPDATE runs, updated_at is not bumped, and no
\* update with an empty payload ever reaches the database.
C3_NoFields400 ==
  [][/\ \A p \in Procs :
          pc'[p] = "update_bug" => DOMAIN ModelDumpExcludeNone(req'[p].payload) # {}
     /\ (resp = NoResp /\ resp' # NoResp /\ resp'.op = "update_bug" /\ resp'.status = 400) =>
          UNCHANGED <<bugs, bug_seq, comments, comment_seq, pc, req, held, txn_start>>
     /\ (served' # served /\ pc' = pc) =>
          (resp'.op = "update_bug" /\ resp'.status = 400)]_vars

\* 400 for a stored bug whose updated_at is older than the clock
C3_Witness ==
  /\ Answered("update_bug", 400)
  /\ resp.bug_id \in DOMAIN bugs
  /\ bugs[resp.bug_id].updated_at < now

\* ---------------------------------------------------------------- C4
\* C4: for a bug id that is not stored, get_bug answers 404 and update_bug with
\* a supplied field answers 404, and no row is created or modified; for a
\* stored id get_bug answers exactly the stored row, never 404 (a failing
\* statement answers 500 instead).
C4_NotFound ==
  [][\A p \in Procs :
       /\ (Completes(p, "get_bug") /\ resp'.status # 500) =>
            /\ resp'.status = IF req[p].bug_id \in DOMAIN bugs THEN 200 ELSE 404
            /\ resp'.status = 200 => resp'.body = bugs[req[p].bug_id]
            /\ UNCHANGED <<bugs, bug_seq, comments, comment_seq>>
       /\ (Completes(p, "update_bug") /\ resp'.status # 500) =>
            /\ resp'.status = IF req[p].bug_id \in DOMAIN bugs THEN 200 ELSE 404
            /\ resp'.status = 404 => UNCHANGED <<bugs, bug_seq, comments, comment_seq>>]_vars

\* update_bug answered 404 for an id that is not stored while another bug is
C4_Witness ==
  /\ Answered("update_bug", 404)
  /\ resp.bug_id \notin DOMAIN bugs
  /\ bugs # << >>

\* ---------------------------------------------------------------- C5
\* C5: add_comment to a bug id that is not stored answers 404 and inserts no
\* row; under any interleaving every stored comment's bug_id is a stored bug.
C5_CommentsReferenceBugs ==
  [][/\ \A c \in DOMAIN comments' : comments'[c].bug_id \in DOMAIN bugs'
     /\ \A p \in Procs :
          (pc[p] = "add_comment_check" /\ pc'[p] # "add_comment_check"
             /\ req[p].bug_id \notin DOMAIN bugs) =>
            /\ resp' # NoResp
            /\ resp'.status = 500 \/ (resp'.op = "add_comment" /\ resp'.status = 404)
            /\ pc'[p] = "idle"
            /\ comments' = comments]_vars

\* a 404 of add_comment while a comment of a stored bug is in the table
C5_Witness ==
  /\ Answered("add_comment", 404)
  /\ resp.bug_id \notin DOMAIN bugs
  /\ comments # << >>

\* ---------------------------------------------------------------- C6
\* C6: list_bugs answers every stored bug exactly once, in strictly descending
\* order of bug_id, each element equal to the stored row, and changes no state.
C6_ListBugs ==
  [][\A p \in Procs :
       (Completes(p, "list_bugs") /\ resp'.status # 500) =>
         LET rows == resp'.body
         IN /\ resp'.status = 200
            /\ Len(rows) = Cardinality(DOMAIN bugs)
            /\ {rows[i].bug_id : i \in DOMAIN rows} = DOMAIN bugs
            /\ \A i \in DOMAIN rows : rows[i] = bugs[rows[i].bug_id]
            /\ \A i, j \in DOMAIN rows : i < j => rows[i].bug_id > rows[j].bug_id
            /\ UNCHANGED <<bugs, bug_seq, comments, comment_seq>>]_vars

\* a listing of at least two bugs that differ in status
C6_Witness ==
  /\ Answered("list_bugs", 200)
  /\ Len(resp.body) >= 2
  /\ resp.body[1].status # resp.body[2].status

\* ---------------------------------------------------------------- C7
\* C7: list_comments(bug_id) answers exactly the comments of that bug, none of
\* another bug and none missing, in ascending created_at, so that no comment
\* comes after one of a later created_at; without comments (also for a bug id
\* that is not stored) it answers an empty array, not 404.
C7_ListComments ==
  [][\A p \in Procs :
       (Completes(p, "list_comments") /\ resp'.status # 500) =>
         LET rows == resp'.body
             mine == {c \in DOMAIN comments : comments[c].bug_id = req[p].bug_id}
         IN /\ resp'.status = 200
            /\ Len(rows) = Cardinality(mine)
            /\ {rows[i] : i \in DOMAIN rows} = {comments[c] : c \in mine}
            /\ \A i, j \in DOMAIN rows : i < j => ~(rows[j].created_at < rows[i].created_at)
            /\ UNCHANGED <<bugs, bug_seq, comments, comment_seq>>]_vars

\* two comments listed, the later-inserted one with the older created_at first
C7_Witness ==
  /\ Answered("list_comments", 200)
  /\ Len(resp.body) = 2
  /\ resp.body[1].created_at < resp.body[2].created_at
  /\ resp.body[1].comment_id > resp.body[2].comment_id

\* an empty listing for a bug id that is not stored, with comments in the table
C7_WitnessEmpty ==
  /\ Answered("list_comments", 200)
  /\ resp.body = << >>
  /\ resp.bug_id \notin DOMAIN bugs
  /\ comments # << >>

\* ---------------------------------------------------------------- C8
\* C8: comments are immutable: no step changes or removes a stored comment; the
\* table only grows, by exactly one row, and only in a successful add_comment.
C8_CommentsImmutable ==
  [][/\ \A c \in DOMAIN comments : c \in DOMAIN comments' /\ comments'[c] = comments[c]
     /\ comments' # comments =>
          /\ Cardinality(DOMAIN comments') = Cardinality(DOMAIN comments) + 1
          /\ resp'.op = "add_comment" /\ resp'.status = 201
     /\ (resp = NoResp /\ resp' # NoResp /\ resp'.op = "add_comment" /\ resp'.status = 201) =>
          /\ Cardinality(DOMAIN comments') = Cardinality(DOMAIN comments) + 1
          /\ resp'.body \in Range(comments') \ Range(comments)]_vars

\* a second comment was added and the bug of the first one updated since
C8_Witness ==
  /\ Answered("add_comment", 201)
  /\ Cardinality(DOMAIN comments) = 2
  /\ \E c \in DOMAIN comments :
       /\ comments[c] # resp.body
       /\ bugs[comments[c].bug_id].updated_at > comments[c].created_at

\* ---------------------------------------------------------------- C9
\* C9: a request holds at most one pooled connection at a time and has released
\* it when it completes, on success and on 404, 400 and database exception, so
\* that no connection is checked out once every request has finished; the
\* write statements run in a transaction that commits on normal exit and rolls
\* back on exception (leaving the tables as they were), the reads on a plain
\* connection.
WriteOps == {"create_bug", "update_bug"}
ReadOps == {"list_bugs", "get_bug", "list_comments"}

C9_Connections ==
  [][/\ \A p \in Procs :
          /\ held'[p] \in {0, 1}
          /\ pc'[p] \in {"idle", "add_comment_found"} => held'[p] = 0
          /\ pc'[p] \notin {"idle", "add_comment_found"} => held'[p] = 1
          /\ (pc[p] # "idle" /\ pc'[p] = "idle") =>
               /\ held[p] = 1
               /\ resp'.scope =
                    CASE resp'.status = 500 ->
                           IF pc[p] \in WriteOps \cup {"add_comment_insert"}
                           THEN "rollback" ELSE "close"
                      [] resp'.status # 500 /\ resp'.op \in WriteOps -> "commit"
                      [] resp'.status # 500 /\ resp'.op \in ReadOps -> "close"
                      [] resp'.status = 201 /\ resp'.op = "add_comment" -> "commit"
                      [] resp'.status = 404 /\ resp'.op = "add_comment" -> "close"
     /\ (resp' # NoResp /\ resp'.scope \in {"rollback", "close", "none"}) =>
          UNCHANGED <<bugs, bug_seq, comments, comment_seq>>
     /\ (resp' # NoResp /\ resp'.status = 400) => held' = held]_vars

\* a write transaction was rolled back by a database exception while the
\* other worker holds its own connection
C9_Witness ==
  /\ Answered("update_bug", 500)
  /\ resp.scope = "rollback"
  /\ \E p \in Procs : held[p] = 0 /\ pc[p] = "idle"
  /\ \E p \in Procs : held[p] = 1 /\ pc[p] = "add_comment_insert"

\* ---------------------------------------------------------------- C10
Ordered(row) ==
  /\ row.created_at <= row.updated_at
  /\ \A r \in row.resolved_at : row.created_at <= r /\ r <= row.updated_at

\* C10 as claimed: with a clock that never goes backwards, every bug always has
\* created_at <= updated_at and, when resolved_at is set, created_at <=
\* resolved_at <= updated_at; created_at never changes and updated_at never
\* decreases.
C10_AsClaimed ==
  [][/\ now' >= now
     /\ \A b \in DOMAIN bugs' : Ordered(bugs'[b])
     /\ \A b \in DOMAIN bugs :
          /\ bugs'[b].created_at = bugs[b].created_at
          /\ bugs'[b].updated_at >= bugs[b].updated_at]_vars

\* C10: with a clock that never goes backwards, created_at never changes and no
\* timestamp lies in the future; create_bug stores created_at = updated_at;
\* right after the create or update that sets status 'closed', resolved_at =
\* updated_at (also when the bug was closed already); and an update whose
\* transaction began no earlier than the row's updated_at keeps the row
\* ordered (created_at <= resolved_at <= updated_at) and does not decrease
\* updated_at.
C10_Timestamps ==
  [][/\ now' >= now
     /\ \A b \in DOMAIN bugs' :
          /\ bugs'[b].created_at <= now' /\ bugs'[b].updated_at <= now'
          /\ \A r \in bugs'[b].resolved_at : r <= now'
     /\ \A b \in DOMAIN bugs : bugs'[b].created_at = bugs[b].created_at
     /\ \A p \in Procs :
          /\ (Completes(p, "create_bug") /\ resp'.status = 201) =>
               /\ resp'.body.created_at = resp'.body.updated_at
               /\ resp'.body.status = "closed" =>
                    resp'.body.resolved_at = {resp'.body.updated_at}
               /\ Ordered(resp'.body)
          /\ (Completes(p, "update_bug") /\ resp'.status = 200) =>
               LET old == bugs[req[p].bug_id]
                   new == bugs'[req[p].bug_id]
               IN /\ req[p].payload.status = "closed" =>
                       new.resolved_at = {new.updated_at}
                  /\ (Ordered(old) /\ txn_start[p] >= old.updated_at) =>
                       (Ordered(new) /\ new.updated_at >= old.updated_at)]_vars

\* a bug closed at one time and updated, still closed, at a later one
C10_Witness ==
  /\ Answered("update_bug", 200)
  /\ resp.body.status = "closed"
  /\ \E r \in resp.body.resolved_at :
       resp.body.created_at <= r /\ r < resp.body.updated_at
====
